---- MODULE Spec2Model ----
(***************************************************************************)
(* Model of the six-file-upload component                                  *)
(* (packages/ui-library/src/components/six-file-upload/six-file-upload.tsx)*)
(*                                                                         *)
(* Two state machines share this module:                                   *)
(*   Spec      - one instance of the control: its props, its hover state,   *)
(*               the drag handlers, the picker change handler and the      *)
(*               validation pipeline handleFiles;                          *)
(*   SpecMount - the lifecycle of several instances and the listener lists *)
(*               of their hosts and of document.body.                      *)
(*                                                                         *)
(* Strings the code inspects character by character (accept, file.type)    *)
(* are sequences of one-character strings.                                 *)
(***************************************************************************)
EXTENDS Integers, Sequences, FiniteSets

VARIABLES
    \* ---- one instance of SixFileUpload ----
    disabled,      \* @Prop disabled
    accept,        \* @Prop accept: a string (<<>> is '' or undefined, both falsy)
    multiple,      \* @Prop multiple
    maxFileSize,   \* @Prop maxFileSize: <<>> is undefined, <<n>> is the number n
    isOver,        \* @State isOver
    inputValue,    \* this.fileInput.value
    emitted,       \* events emitted by the handler that ran last, in order
    lastSignal,    \* the signal handled last and the file list it carried
    hoverWindow,   \* TRUE iff the last drag signal was dragenter/dragover
    \* ---- lifecycle of the instances and the DOM listener lists ----
    connected,     \* instance -> the host element is in the document
    loaded,        \* instance -> componentDidLoad has run
    hostListeners, \* instance -> event listener list of this.host
    bodyListeners, \* event listener list of document.body
    lastDispatch   \* the drag event dispatched last and what happened to it

vars == <<disabled, accept, multiple, maxFileSize, isOver, inputValue, emitted,
          lastSignal, hoverWindow, connected, loaded, hostListeners,
          bodyListeners, lastDispatch>>

compVars == <<disabled, accept, multiple, maxFileSize, isOver, inputValue,
              emitted, lastSignal, hoverWindow>>

mountVars == <<connected, loaded, hostListeners, bodyListeners, lastDispatch>>

(***************************************************************************)
(* Bounds of the model                                                     *)
(***************************************************************************)
\* longest file list a signal carries
MaxFiles == 2
\* number of instances of the control
NumInstances == 2

(***************************************************************************)
(* Values                                                                  *)
(***************************************************************************)
\* characters matched by the regular expression \s
Whitespace == {" "}

\* MIME types reported by the platform (two-letter stand-ins)
TypePng == <<"p">>
TypePgm == <<"p", "g">>

\* a File of a FileList; present = FALSE is a null/undefined entry
File(t, s) == [present |-> TRUE, type |-> t, size |-> s]
NullFile == [present |-> FALSE, type |-> <<>>, size |-> 0]
\* the files offered: two types, byte sizes below and above a maxFileSize of 1
Files == {File(TypePng, 1), File(TypePgm, 1), File(TypePgm, 2), NullFile}

\* FileList values: ordered, indexable, of length 0..MaxFiles
FileLists == UNION {[1..n -> Files] : n \in 0..MaxFiles}

\* what a drop or a change carries: a FileList, or nothing at all (a drop
\* without dataTransfer, a change with no fileInput.files)
Carried(fl) == [present |-> TRUE, files |-> fl]
NoFiles == [present |-> FALSE, files |-> <<>>]
Payloads == {Carried(fl) : fl \in FileLists} \cup {NoFiles}

\* values of the accept prop
AcceptValues ==
    { <<>>,                                  \* not configured
      <<" ", "p", " ", ",", "p", "g", " ">>, \* " p ,pg "
      <<"p", " ", "g">>,                     \* "p g"  (whitespace inside an entry)
      <<"p", "*">> }                         \* "p*"

\* values of the maxFileSize prop
Undefined == <<>>
MaxFileSizeValues == {Undefined, <<0>>, <<1>>}

SuccessEvent == "six-file-upload-success"
FailureEvent == "six-file-upload-failure"

(***************************************************************************)
(* handleFiles and its helpers                                             *)
(***************************************************************************)
\* JavaScript truthiness of a string and of number | undefined
TruthyString(s) == Len(s) > 0
TruthyNumber(n) == n # Undefined /\ n[1] # 0

\* s.replace(/\s/g, '')
RemoveWhitespace(s) == SelectSeq(s, LAMBDA c : c \notin Whitespace)

\* s.split(','): the pieces between the commas, empty pieces kept
RECURSIVE SplitFrom(_, _, _)
SplitFrom(s, i, cur) ==
    IF i > Len(s) THEN <<cur>>
    ELSE IF s[i] = "," THEN <<cur>> \o SplitFrom(s, i + 1, <<>>)
    ELSE SplitFrom(s, i + 1, Append(cur, s[i]))

Split(s) == SplitFrom(s, 1, <<>>)

\* a faulty acceptedTypesList: the whitespace is not removed
acceptedTypesListNoStrip(a) == Split(a)

\* this.accept && this.accept.replace(/\s/g, '').split(',')
acceptedTypesList(a) == Split(RemoveWhitespace(a))

\* list.indexOf(x) === -1
NotInList(list, x) == \A k \in 1..Len(list) : list[k] # x

\* this.accept && acceptedTypesList.indexOf(file.type) === -1
InvalidMimeType(f) ==
    TruthyString(accept) /\ NotInList(acceptedTypesList(accept), f.type)

\* this.maxFileSize && file.size > this.maxFileSize
TooBig(f) == TruthyNumber(maxFileSize) /\ f.size > maxFileSize[1]

Failure(reason) ==
    [name |-> FailureEvent, payload |-> [key |-> "reason", value |-> reason]]
Success(key, value) ==
    [name |-> SuccessEvent, payload |-> [key |-> key, value |-> value]]

\* a faulty MimeReason: the two wordings swapped
MimeReasonSwapped(files) ==
    IF Len(files) > 1 THEN "File has invalid MIME type."
    ELSE "One or more files have invalid MIME type."

\* files.length > 1 ? 'One or more files have invalid MIME type.' : ...
MimeReason(files) ==
    IF Len(files) > 1 THEN "One or more files have invalid MIME type."
    ELSE "File has invalid MIME type."

\* files.length > 1 ? 'One or more files are too big' : 'File is too big.'
SizeReason(files) ==
    IF Len(files) > 1 THEN "One or more files are too big"
    ELSE "File is too big."

\* a faulty ForLoop: the failure branches emit and go on to the next file
RECURSIVE ForLoopNoReturn(_, _)
ForLoopNoReturn(files, i) ==
    IF i > Len(files) THEN [returned |-> FALSE, events |-> <<>>]
    ELSE IF ~files[i].present THEN [returned |-> TRUE, events |-> <<>>]
    ELSE LET rest == ForLoopNoReturn(files, i + 1)
             here == IF InvalidMimeType(files[i]) THEN <<Failure(MimeReason(files))>>
                     ELSE IF TooBig(files[i]) THEN <<Failure(SizeReason(files))>>
                     ELSE <<>>
         IN  [returned |-> rest.returned, events |-> here \o rest.events]

\* for (const file of files) { ... }, from the i-th file on: whether the loop
\* body returned from handleFiles, and the events it emitted
RECURSIVE ForLoop(_, _)
ForLoop(files, i) ==
    IF i > Len(files) THEN [returned |-> FALSE, events |-> <<>>]
    ELSE IF ~files[i].present THEN [returned |-> TRUE, events |-> <<>>]
    ELSE IF InvalidMimeType(files[i])
         THEN [returned |-> TRUE, events |-> <<Failure(MimeReason(files))>>]
    ELSE IF TooBig(files[i])
         THEN [returned |-> TRUE, events |-> <<Failure(SizeReason(files))>>]
    ELSE ForLoop(files, i + 1)

\* files.item(0): null when the list is empty
Item0(files) == IF Len(files) = 0 THEN NullFile ELSE files[1]

\* a faulty objectToEmit: the last file instead of the first, and the
\* list reversed
objectToEmitLast(files) ==
    IF multiple
    THEN Success("files", [k \in 1..Len(files) |-> files[Len(files) + 1 - k]])
    ELSE Success("file", IF Len(files) = 0 THEN NullFile ELSE files[Len(files)])

\* this.multiple ? { files } : { file: files.item(0) }
objectToEmit(files) ==
    IF multiple THEN Success("files", files) ELSE Success("file", Item0(files))

\* a faulty CountRuleFails: the count rule never fires
CountRuleNever(files) == FALSE

\* !this.multiple && files.length > 1
CountRuleFails(files) == ~multiple /\ Len(files) > 1

\* a faulty handleFiles: no early return while disabled
handleFilesIgnoringDisabled(files) ==
    IF Len(files) = 0 THEN <<>>
    ELSE IF CountRuleFails(files) THEN <<Failure("Only one file is allowed.")>>
    ELSE LET loop == ForLoop(files, 1)
         IN  IF loop.returned THEN loop.events
             ELSE loop.events \o <<objectToEmit(files)>>

\* a faulty handleFiles: no early return on an empty list
handleFilesNoEmptyCheck(files) ==
    IF disabled THEN <<>>
    ELSE IF CountRuleFails(files) THEN <<Failure("Only one file is allowed.")>>
    ELSE LET loop == ForLoop(files, 1)
         IN  IF loop.returned THEN loop.events
             ELSE loop.events \o <<objectToEmit(files)>>

\* handleFiles(files): the events it emits, in order
handleFiles(files) ==
    IF disabled THEN <<>>
    ELSE IF Len(files) = 0 THEN <<>>
    ELSE IF CountRuleFails(files) THEN <<Failure("Only one file is allowed.")>>
    ELSE LET loop == ForLoop(files, 1)
         IN  IF loop.returned THEN loop.events
             ELSE loop.events \o <<objectToEmit(files)>>

\* each emitted event with the state the listener of the event observes
Observed(events, over, value) ==
    [k \in 1..Len(events) |->
        [name |-> events[k].name, payload |-> events[k].payload,
         isOver |-> over, inputValue |-> value]]

(***************************************************************************)
(* The instance: initial state and handlers                                *)
(***************************************************************************)
NoSignal == [kind |-> "none", files |-> NoFiles]

\* the value of the file input after the user picked files
FakePath == "C:\\fakepath\\file"

InitMount ==
    /\ connected = [i \in 1..NumInstances |-> FALSE]
    /\ loaded = [i \in 1..NumInstances |-> FALSE]
    /\ hostListeners = [i \in 1..NumInstances |-> <<>>]
    /\ bodyListeners = <<>>
    /\ lastDispatch = [type |-> "none", target |-> 0, calls |-> 0,
                       defaultPrevented |-> FALSE]

Init ==
    /\ disabled \in BOOLEAN
    /\ accept \in AcceptValues
    /\ multiple \in BOOLEAN
    /\ maxFileSize \in MaxFileSizeValues
    /\ isOver = FALSE
    /\ inputValue = ""
    /\ emitted = <<>>
    /\ lastSignal = NoSignal
    /\ hoverWindow = FALSE
    /\ InitMount

Props == <<accept, multiple, maxFileSize>>

dragenterHandler ==
    /\ isOver' = IF ~disabled THEN TRUE ELSE isOver
    /\ emitted' = <<>>
    /\ lastSignal' = [kind |-> "dragenter", files |-> NoFiles]
    /\ hoverWindow' = TRUE
    /\ UNCHANGED <<disabled, Props, inputValue, mountVars>>

dragoverHandler ==
    /\ isOver' = IF ~disabled THEN TRUE ELSE isOver
    /\ emitted' = <<>>
    /\ lastSignal' = [kind |-> "dragover", files |-> NoFiles]
    /\ hoverWindow' = TRUE
    /\ UNCHANGED <<disabled, Props, inputValue, mountVars>>

dragleaveHandler ==
    /\ isOver' = IF ~disabled THEN FALSE ELSE isOver
    /\ emitted' = <<>>
    /\ lastSignal' = [kind |-> "dragleave", files |-> NoFiles]
    /\ hoverWindow' = FALSE
    /\ UNCHANGED <<disabled, Props, inputValue, mountVars>>

\* the events a drop carrying dt emits:
\* if (!this.disabled) { ...; if (dataTransfer) this.handleFiles(dataTransfer.files) }
dropEmits(dt) ==
    IF ~disabled /\ dt.present THEN handleFiles(dt.files) ELSE <<>>

\* a faulty dropHandler: isOver is reset after the files were handled
dropHandlerResetAfter(dt) ==
    /\ isOver' = IF ~disabled THEN FALSE ELSE isOver
    /\ emitted' = Observed(dropEmits(dt), isOver, inputValue)
    /\ lastSignal' = [kind |-> "drop", files |-> dt]
    /\ hoverWindow' = FALSE
    /\ UNCHANGED <<disabled, Props, inputValue, mountVars>>

\* dropHandler({ dataTransfer }); dt = NoFiles is a drop without dataTransfer
dropHandler(dt) ==
    /\ isOver' = IF ~disabled THEN FALSE ELSE isOver
    /\ emitted' = Observed(dropEmits(dt), isOver', inputValue)
    /\ lastSignal' = [kind |-> "drop", files |-> dt]
    /\ hoverWindow' = FALSE
    /\ UNCHANGED <<disabled, Props, inputValue, mountVars>>

\* the events a change of the file input holding fs emits:
\* if (this.fileInput?.files) { this.handleFiles(this.fileInput.files); ... }
changeEmits(fs) ==
    IF fs.present THEN handleFiles(fs.files) ELSE <<>>

\* fileInput.value when the change event fires: the path of the pick
PickedValue(fs) == IF fs.present /\ Len(fs.files) > 0 THEN FakePath ELSE ""

\* a faulty onChange: the value of the input is not cleared
onChangeNoClear(fs) ==
    /\ emitted' = Observed(changeEmits(fs), isOver, PickedValue(fs))
    /\ inputValue' = PickedValue(fs)
    /\ lastSignal' = [kind |-> "change", files |-> fs]
    /\ UNCHANGED <<disabled, Props, isOver, hoverWindow, mountVars>>

\* onChange, run by the change event of the file input after the user's pick
\* put fs into fileInput.files; fs = NoFiles is a missing fileInput or files
onChange(fs) ==
    /\ emitted' = Observed(changeEmits(fs), isOver, PickedValue(fs))
    /\ inputValue' = IF fs.present THEN "" ELSE inputValue
    /\ lastSignal' = [kind |-> "change", files |-> fs]
    /\ UNCHANGED <<disabled, Props, isOver, hoverWindow, mountVars>>

\* the host page assigns the disabled prop; no @Watch reacts to it
SetDisabled(b) ==
    /\ disabled # b
    /\ disabled' = b
    /\ emitted' = <<>>
    /\ lastSignal' = [kind |-> "disabled", files |-> NoFiles]
    /\ UNCHANGED <<Props, isOver, inputValue, hoverWindow, mountVars>>

(***************************************************************************)
(* Lifecycle: componentDidLoad, disconnectedCallback, preventDefaults      *)
(***************************************************************************)
Instances == 1..NumInstances

\* ['dragenter', 'dragover', 'dragleave', 'drop']
EventNames == <<"dragenter", "dragover", "dragleave", "drop">>

\* a variant of preventDefaultsOf: one function object per instance (as an
\* arrow-function field or a bound method would give)
preventDefaultsBound(i) == <<"preventDefaults", i>>

\* this.preventDefaults of instance i: preventDefaults is a method of the
\* class, so every instance reads the same function object of the prototype
preventDefaultsOf(i) == <<"preventDefaults", 0>>

Listener(type, callback, capture) ==
    [type |-> type, callback |-> callback, capture |-> capture]

\* EventTarget.addEventListener: a listener with the same type, callback and
\* capture flag as one of the list is not added again
addEventListener(list, type, callback, capture) ==
    IF \E k \in 1..Len(list) : list[k] = Listener(type, callback, capture)
    THEN list
    ELSE Append(list, Listener(type, callback, capture))

\* EventTarget.removeEventListener: no effect when the listener is not there
removeEventListener(list, type, callback, capture) ==
    SelectSeq(list, LAMBDA l : l # Listener(type, callback, capture))

\* the forEach of componentDidLoad on one listener list, from the k-th name on
RECURSIVE AddAll(_, _, _)
AddAll(list, callback, k) ==
    IF k > Len(EventNames) THEN list
    ELSE AddAll(addEventListener(list, EventNames[k], callback, FALSE),
                callback, k + 1)

\* a faulty RemoveAll: the list of names lacks 'drop'
RECURSIVE RemoveAllButDrop(_, _, _)
RemoveAllButDrop(list, callback, k) ==
    IF k > Len(EventNames) - 1 THEN list
    ELSE RemoveAllButDrop(removeEventListener(list, EventNames[k], callback, FALSE),
                          callback, k + 1)

\* the forEach of disconnectedCallback on one listener list
RECURSIVE RemoveAll(_, _, _)
RemoveAll(list, callback, k) ==
    IF k > Len(EventNames) THEN list
    ELSE RemoveAll(removeEventListener(list, EventNames[k], callback, FALSE),
                   callback, k + 1)

\* the host element is inserted into the document (the first time, or again)
connectedCallback(i) ==
    /\ ~connected[i]
    /\ connected' = [connected EXCEPT ![i] = TRUE]
    /\ UNCHANGED <<loaded, hostListeners, bodyListeners, lastDispatch, compVars>>

\* componentDidLoad: once per instance, after its first render
componentDidLoad(i) ==
    /\ connected[i] /\ ~loaded[i]
    /\ loaded' = [loaded EXCEPT ![i] = TRUE]
    /\ hostListeners' = [hostListeners EXCEPT
                            ![i] = AddAll(@, preventDefaultsOf(i), 1)]
    /\ bodyListeners' = AddAll(bodyListeners, preventDefaultsOf(i), 1)
    /\ UNCHANGED <<connected, lastDispatch, compVars>>

\* a faulty disconnectedCallback: it also resets the hover state
disconnectedCallbackResetsHover(i) ==
    /\ connected[i]
    /\ connected' = [connected EXCEPT ![i] = FALSE]
    /\ hostListeners' = [hostListeners EXCEPT
                            ![i] = RemoveAll(@, preventDefaultsOf(i), 1)]
    /\ bodyListeners' = RemoveAll(bodyListeners, preventDefaultsOf(i), 1)
    /\ isOver' = FALSE
    /\ UNCHANGED <<loaded, lastDispatch, disabled, Props, inputValue, emitted,
                   lastSignal, hoverWindow>>

\* disconnectedCallback: every time the host element leaves the document
disconnectedCallback(i) ==
    /\ connected[i]
    /\ connected' = [connected EXCEPT ![i] = FALSE]
    /\ hostListeners' = [hostListeners EXCEPT
                            ![i] = RemoveAll(@, preventDefaultsOf(i), 1)]
    /\ bodyListeners' = RemoveAll(bodyListeners, preventDefaultsOf(i), 1)
    /\ UNCHANGED <<loaded, lastDispatch, compVars>>

\* number of listeners of a list that an event of this type invokes
Invoked(list, type) ==
    Cardinality({k \in 1..Len(list) : list[k].type = type})

\* a drag event of the given type dispatched at target t and bubbling up to
\* document.body: t = 0 is an element outside every control, t = i the host of
\* instance i. preventDefaults calls preventDefault and stopPropagation, so
\* the event does not reach the body once a host listener ran.
DispatchResult(type, t) ==
    LET atHost == IF t = 0 THEN 0 ELSE Invoked(hostListeners[t], type)
        atBody == IF atHost > 0 THEN 0 ELSE Invoked(bodyListeners, type)
    IN  [type |-> type, target |-> t, calls |-> atHost + atBody,
         defaultPrevented |-> atHost + atBody > 0]

\* targets in the document: outside the controls, or a connected host
InDocument(t) == IF t = 0 THEN TRUE ELSE connected[t]

DispatchDrag(type, t) ==
    /\ InDocument(t)
    /\ lastDispatch' = DispatchResult(type, t)
    /\ UNCHANGED <<connected, loaded, hostListeners, bodyListeners, compVars>>

InitComp ==
    /\ disabled = FALSE
    /\ accept = <<>>
    /\ multiple = FALSE
    /\ maxFileSize = Undefined
    /\ isOver = FALSE
    /\ inputValue = ""
    /\ emitted = <<>>
    /\ lastSignal = NoSignal
    /\ hoverWindow = FALSE

MountInit == InitComp /\ InitMount

MountNext ==
    \/ \E i \in Instances : connectedCallback(i)
    \/ \E i \in Instances : componentDidLoad(i)
    \/ \E i \in Instances : disconnectedCallback(i)
    \/ \E k \in 1..Len(EventNames), t \in {0} \cup Instances :
          DispatchDrag(EventNames[k], t)

SpecMount == MountInit /\ [][MountNext]_vars

Next ==
    \/ dragenterHandler
    \/ dragoverHandler
    \/ dragleaveHandler
    \/ \E dt \in Payloads : dropHandler(dt)
    \/ \E fs \in Payloads : onChange(fs)
    \/ \E b \in BOOLEAN : SetDisabled(b)

Spec == Init /\ [][Next]_vars

(***************************************************************************)
(* The instance together with its own lifecycle                            *)
(***************************************************************************)
\* the instance whose props and hover state the component variables hold
ThisInstance == {1}

\* one configuration in which all three rules can decide; the host still
\* chooses disabled and multiple
FrameInit ==
    /\ disabled \in BOOLEAN
    /\ accept = <<"p", " ", "g">>
    /\ multiple \in BOOLEAN
    /\ maxFileSize = <<1>>
    /\ isOver = FALSE
    /\ inputValue = ""
    /\ emitted = <<>>
    /\ lastSignal = NoSignal
    /\ hoverWindow = FALSE
    /\ InitMount

FrameNext ==
    \/ dragenterHandler
    \/ dragoverHandler
    \/ dragleaveHandler
    \/ \E dt \in Payloads : dropHandler(dt)
    \/ \E fs \in Payloads : onChange(fs)
    \/ \E b \in BOOLEAN : SetDisabled(b)
    \/ \E i \in ThisInstance : connectedCallback(i)
    \/ \E i \in ThisInstance : componentDidLoad(i)
    \/ \E i \in ThisInstance : disconnectedCallback(i)

SpecFrame == FrameInit /\ [][FrameNext]_vars

(***************************************************************************)
(* Vocabulary of the properties                                            *)
(***************************************************************************)
\* the last step was an acquisition attempt: a drop or a picker change that
\* carried a file list
Attempt == lastSignal.kind \in {"drop", "change"} /\ lastSignal.files.present

\* the file list of the last attempt
Submitted == lastSignal.files.files

SuccessCount == Cardinality({k \in 1..Len(emitted) : emitted[k].name = SuccessEvent})
FailureCount == Cardinality({k \in 1..Len(emitted) : emitted[k].name = FailureEvent})

\* the last handler emitted exactly one event, a failure with this reason
FailedWith(reason) ==
    /\ Len(emitted) = 1
    /\ emitted[1].name = FailureEvent
    /\ emitted[1].payload.key = "reason"
    /\ emitted[1].payload.value = reason

\* the last handler emitted exactly one event, a success with this payload
SucceededWith(key, value) ==
    /\ Len(emitted) = 1
    /\ emitted[1].name = SuccessEvent
    /\ emitted[1].payload.key = key
    /\ emitted[1].payload.value = value

\* the accept list as the code derives it from the accept prop
AcceptList == acceptedTypesList(accept)

AllPresent(files) == \A k \in 1..Len(files) : files[k].present

\* every file is there and its type is no entry of the accept list
AllTypesAbsent(files) ==
    \A k \in 1..Len(files) :
        files[k].present /\ NotInList(AcceptList, files[k].type)

\* some file is there and larger than the configured maxFileSize
SomeFileExceeds(files) ==
    /\ maxFileSize # Undefined
    /\ \E k \in 1..Len(files) :
          files[k].present /\ files[k].size > maxFileSize[1]

\* every file is there, of an accepted type when accept is configured, and
\* no larger than maxFileSize when maxFileSize is configured
AllPass(files) ==
    \A k \in 1..Len(files) :
        /\ files[k].present
        /\ Len(accept) = 0 \/ ~NotInList(AcceptList, files[k].type)
        /\ maxFileSize = Undefined \/ files[k].size <= maxFileSize[1]

(***************************************************************************)
(* C1 - an acquisition attempt emits at most one event                     *)
(***************************************************************************)
\* C1: every handler run (drop, picker change, and every other signal) ends
\* with no event, one success event or one failure event: never two events,
\* never a success together with a failure.
C1_AtMostOneEvent ==
    /\ Len(emitted) <= 1
    /\ SuccessCount + FailureCount = Len(emitted)
    /\ ~(SuccessCount > 0 /\ FailureCount > 0)

\* an attempt with two files that both break a rule ended in one failure
C1_Witness ==
    /\ Attempt /\ ~disabled /\ multiple
    /\ Len(Submitted) = 2
    /\ \A k \in 1..2 : Submitted[k].present /\ InvalidMimeType(Submitted[k])
    /\ FailureCount = 1 /\ SuccessCount = 0

(***************************************************************************)
(* C2 - the count rule                                                     *)
(***************************************************************************)
\* C2 as stated: with multiple = false and for every value of disabled,
\* accept and maxFileSize, an attempt with more than one file emits the
\* failure "Only one file is allowed." and no success.
C2_Original ==
    (Attempt /\ ~multiple /\ Len(Submitted) > 1)
        => FailedWith("Only one file is allowed.")

\* C2: with multiple = false on a control that is not disabled, for every
\* value of accept and maxFileSize, an attempt with more than one file emits
\* exactly the failure "Only one file is allowed." and no success; on a
\* disabled control the attempt emits nothing.
C2_OnlyOneFileAllowed ==
    (Attempt /\ ~multiple /\ Len(Submitted) > 1)
        => IF disabled THEN emitted = <<>>
           ELSE FailedWith("Only one file is allowed.") /\ SuccessCount = 0

\* two valid files offered to an enabled single-file control were refused
C2_Witness ==
    /\ Attempt /\ ~multiple /\ ~disabled
    /\ Len(Submitted) = 2 /\ AllPass(Submitted)
    /\ FailedWith("Only one file is allowed.")

(***************************************************************************)
(* C3 - the MIME rule                                                      *)
(***************************************************************************)
\* C3 as stated: for every non-empty file set whose files all have a type
\* that is not in the configured accept list, the attempt emits the MIME
\* failure, worded for one file or for several.
C3_Original ==
    (Attempt /\ Len(Submitted) > 0 /\ Len(accept) > 0 /\ AllTypesAbsent(Submitted))
        => FailedWith(IF Len(Submitted) > 1
                      THEN "One or more files have invalid MIME type."
                      ELSE "File has invalid MIME type.")

\* C3: on a control that is not disabled and when the count rule holds
\* (multiple is true or the set has one file), for every non-empty file set
\* whose files are all present with a type that is no entry of the accept
\* list (accept with all whitespace removed, split at the commas), the
\* attempt emits exactly one failure: "File has invalid MIME type." for one
\* file, "One or more files have invalid MIME type." for more than one.
C3_InvalidMimeType ==
    (/\ Attempt /\ ~disabled /\ (multiple \/ Len(Submitted) = 1)
     /\ Len(Submitted) > 0 /\ Len(accept) > 0 /\ AllTypesAbsent(Submitted))
        => FailedWith(IF Len(Submitted) > 1
                      THEN "One or more files have invalid MIME type."
                      ELSE "File has invalid MIME type.")

\* two files of a type outside the accept list were refused with the plural
\* wording
C3_Witness ==
    /\ Attempt /\ ~disabled /\ multiple
    /\ Len(Submitted) = 2 /\ Len(accept) > 0 /\ AllTypesAbsent(Submitted)
    /\ FailedWith("One or more files have invalid MIME type.")

\* one file of a type outside the accept list was refused with the singular
\* wording
C3_WitnessSingle ==
    /\ Attempt /\ ~disabled
    /\ Len(Submitted) = 1 /\ Len(accept) > 0 /\ AllTypesAbsent(Submitted)
    /\ FailedWith("File has invalid MIME type.")

(***************************************************************************)
(* C4 - the size rule                                                      *)
(***************************************************************************)
\* C4 as stated: for every non-empty file set with a file larger than the
\* configured maxFileSize, the attempt emits the size failure, "File is too
\* big." for one file and "One or more files are too big" for several.
C4_Original ==
    (Attempt /\ Len(Submitted) > 0 /\ SomeFileExceeds(Submitted))
        => FailedWith(IF Len(Submitted) > 1
                      THEN "One or more files are too big"
                      ELSE "File is too big.")

\* C4 on the inputs where nothing but the size rule can decide: an enabled
\* control, no accept list, the count rule satisfied, every file present.
C4_SizeRuleAlone ==
    (/\ Attempt /\ ~disabled /\ (multiple \/ Len(Submitted) = 1)
     /\ Len(accept) = 0 /\ AllPresent(Submitted)
     /\ Len(Submitted) > 0 /\ SomeFileExceeds(Submitted))
        => FailedWith(IF Len(Submitted) > 1
                      THEN "One or more files are too big"
                      ELSE "File is too big.")

(***************************************************************************)
(* C5 - the empty file set                                                 *)
(***************************************************************************)
\* the last step submitted an empty file list
EmptySubmission == Attempt /\ Len(Submitted) = 0

\* C5 as stated: submitting an empty file set, by a drop or by the picker,
\* emits no event and leaves isOver as it was.
C5_Original ==
    [][EmptySubmission' => (emitted' = <<>> /\ isOver' = isOver)]_vars

\* C5: submitting an empty file set, by a drop or by the picker and under
\* every configuration, emits no event; the picker path and the drop on a
\* disabled control leave isOver as it was, the drop on an enabled control
\* leaves isOver false.
C5_EmptySetIsSilent ==
    [][EmptySubmission' =>
          /\ emitted' = <<>>
          /\ isOver' = IF lastSignal'.kind = "drop" /\ ~disabled
                       THEN FALSE ELSE isOver]_vars

\* an empty drop on an enabled multi-file control: nothing was emitted
C5_Witness ==
    /\ EmptySubmission /\ lastSignal.kind = "drop"
    /\ ~disabled /\ multiple /\ emitted = <<>> /\ ~isOver

(***************************************************************************)
(* C6, C7, C8 - the hover state                                            *)
(***************************************************************************)
\* C6: while disabled is true, a drop or a picker change with any file set
\* emits no event, and isOver is false after it.
C6_Original ==
    (disabled /\ lastSignal.kind \in {"drop", "change"})
        => (emitted = <<>> /\ ~isOver)

\* C7: in every reachable state isOver is false whenever disabled is true.
C7_Original == disabled => ~isOver

\* C8: isOver is true only between a dragenter/dragover and the next
\* dragleave/drop: initially, and whenever the last drag signal was a
\* dragleave or a drop, isOver is false.
C8_Original == ~hoverWindow => ~isOver

(***************************************************************************)
(* C9 - the success payload                                                *)
(***************************************************************************)
\* C9: when every file of a non-empty set passes validation on an enabled
\* control (the count rule included), the attempt emits one success whose
\* payload is { files: the submitted list, in the submitted order } when
\* multiple is true and { file: the first file } when multiple is false.
C9_SuccessPayload ==
    (/\ Attempt /\ ~disabled /\ Len(Submitted) > 0
     /\ (multiple \/ Len(Submitted) = 1)
     /\ AllPass(Submitted))
        => IF multiple THEN SucceededWith("files", Submitted)
           ELSE SucceededWith("file", Submitted[1])

\* multiple = true, no accept, no maxFileSize, two different files:
\* success { files: [file1, file2] }
C9_Witness ==
    /\ Attempt /\ ~disabled /\ multiple
    /\ Len(accept) = 0 /\ maxFileSize = Undefined
    /\ Len(Submitted) = 2 /\ Submitted[1] # Submitted[2]
    /\ AllPresent(Submitted)
    /\ SucceededWith("files", Submitted)

(***************************************************************************)
(* C10 - suppression while an instance is mounted                          *)
(***************************************************************************)
\* instance i is mounted: its host is in the document and it has loaded
Mounted(i) == connected[i] /\ loaded[i]

\* C10: whenever at least one instance is mounted, the default handling of
\* dragenter, dragover, dragleave and drop is prevented for every target in
\* the document, inside or outside the controls.
C10_Original ==
    (\E i \in Instances : Mounted(i))
        => \A k \in 1..Len(EventNames), t \in {0} \cup Instances :
              InDocument(t) => DispatchResult(EventNames[k], t).defaultPrevented

NothingInstalled(i) == hostListeners[i] = <<>> /\ bodyListeners = <<>>

\* C12: (a) however many instances ran the install step, a drag event of any
\* type at any target of the document invokes preventDefaults at most once;
\* (b) running the install step of an instance again on the listener lists of
\* a state in which it is installed changes neither list; (c) a remove step
\* (disconnectedCallback) of an instance with nothing installed leaves every
\* listener list as it was.
C12_InstallRemoveIdempotent ==
    /\ [](\A k \in 1..Len(EventNames), t \in {0} \cup Instances :
             DispatchResult(EventNames[k], t).calls <= 1)
    /\ [](\A i \in Instances :
             Mounted(i) /\ bodyListeners # <<>> /\ hostListeners[i] # <<>>
                => /\ AddAll(bodyListeners, preventDefaultsOf(i), 1) = bodyListeners
                   /\ AddAll(hostListeners[i], preventDefaultsOf(i), 1)
                         = hostListeners[i])
    /\ [][\A i \in Instances :
             (NothingInstalled(i) /\ connected[i] /\ ~connected'[i])
                => (bodyListeners' = bodyListeners
                    /\ hostListeners' = hostListeners)]_vars

\* two instances are mounted, both ran the install step, and a drag event
\* outside the controls invoked preventDefaults once
C12_Witness ==
    /\ \E i, j \in Instances : i # j /\ Mounted(i) /\ Mounted(j)
    /\ lastDispatch.target = 0 /\ lastDispatch.calls = 1
    /\ DispatchResult(lastDispatch.type, 0).calls = 1

(***************************************************************************)
(* C13 - the picker path forwards, then clears the input                   *)
(***************************************************************************)
\* the emitted events without what their listener observed
EventsOf(es) ==
    [k \in 1..Len(es) |-> [name |-> es[k].name, payload |-> es[k].payload]]

\* the last step was a change of the file input with a non-empty file list
NonEmptyChange ==
    lastSignal.kind = "change" /\ lastSignal.files.present /\ Len(Submitted) > 0

\* C13: after a change of the file input with a non-empty file set, the set
\* went through the pipeline (the events are those handleFiles yields for it),
\* every event was emitted while the input still held its value, and the
\* value of the input is empty once the handler has returned, whatever the
\* outcome (success, failure, nothing).
C13_ForwardThenClear ==
    NonEmptyChange
        => /\ inputValue = ""
           /\ \A k \in 1..Len(emitted) : emitted[k].inputValue = FakePath
           /\ EventsOf(emitted) = handleFiles(Submitted)

\* a change that ended in a failure event left the input empty
C13_Witness ==
    /\ NonEmptyChange /\ ~disabled
    /\ FailureCount = 1 /\ emitted[1].inputValue = FakePath
    /\ inputValue = ""

\* a change that ended in a success event left the input empty
C13_WitnessSuccess ==
    NonEmptyChange /\ SuccessCount = 1 /\ inputValue = ""

\* a change that emitted nothing (a disabled control) left the input empty
C13_WitnessSilent ==
    NonEmptyChange /\ disabled /\ emitted = <<>> /\ inputValue = ""

(***************************************************************************)
(* C14, C15, C16 - the rules as the properties state them                  *)
(***************************************************************************)
\* the file breaks the MIME rule: accept is configured and the type is no
\* entry of the accept list
ViolatesMime(f) == Len(accept) > 0 /\ NotInList(AcceptList, f.type)

\* the file breaks the size rule: maxFileSize is configured (any number,
\* 0 included) and the size exceeds it
ViolatesSize(f) == maxFileSize # Undefined /\ f.size > maxFileSize[1]

Violates(f) == ViolatesMime(f) \/ ViolatesSize(f)

\* the index of the first file of the list that breaks a rule
FirstViolating(files) ==
    CHOOSE k \in 1..Len(files) :
        Violates(files[k]) /\ \A j \in 1..(k - 1) : ~Violates(files[j])

MimeWording(files) ==
    IF Len(files) > 1 THEN "One or more files have invalid MIME type."
    ELSE "File has invalid MIME type."

SizeWording(files) ==
    IF Len(files) > 1 THEN "One or more files are too big"
    ELSE "File is too big."

\* an attempt on an enabled control whose count rule holds, every file
\* present, and at least one file breaking a rule
ViolatingAttempt ==
    /\ Attempt /\ ~disabled
    /\ multiple \/ Len(Submitted) = 1
    /\ AllPresent(Submitted)
    /\ \E k \in 1..Len(Submitted) : Violates(Submitted[k])

\* C14: when the count rule passes and files break rules, the one failure
\* emitted is the one of the first rule-breaking file in list order, the
\* MIME reason when that file breaks both rules; later files do not matter.
C14_Original ==
    ViolatingAttempt
        => LET f == Submitted[FirstViolating(Submitted)]
           IN  FailedWith(IF ViolatesMime(f) THEN MimeWording(Submitted)
                          ELSE SizeWording(Submitted))

\* C14 for every maxFileSize but 0
C14_WithPositiveLimit ==
    (ViolatingAttempt /\ maxFileSize # <<0>>)
        => LET f == Submitted[FirstViolating(Submitted)]
           IN  FailedWith(IF ViolatesMime(f) THEN MimeWording(Submitted)
                          ELSE SizeWording(Submitted))

\* C15: an attempt emits a success event if and only if the control is not
\* disabled, the set is non-empty, the count rule holds and every file is
\* present, of an accepted type, and no larger than maxFileSize.
C15_Original ==
    Attempt
        => ((Len(emitted) = 1 /\ SuccessCount = 1)
               <=> (/\ ~disabled /\ Len(Submitted) > 0
                    /\ (multiple \/ Len(Submitted) = 1)
                    /\ AllPass(Submitted)))

\* C15 for every maxFileSize but 0
C15_WithPositiveLimit ==
    (Attempt /\ maxFileSize # <<0>>)
        => ((Len(emitted) = 1 /\ SuccessCount = 1)
               <=> (/\ ~disabled /\ Len(Submitted) > 0
                    /\ (multiple \/ Len(Submitted) = 1)
                    /\ AllPass(Submitted)))

\* C16: on an enabled control with no accept list and any configured
\* maxFileSize, 0 included, one file larger than maxFileSize yields the
\* failure "File is too big." and no success.
C16_Original ==
    (/\ Attempt /\ ~disabled /\ Len(accept) = 0
     /\ maxFileSize # Undefined
     /\ Len(Submitted) = 1 /\ Submitted[1].present
     /\ Submitted[1].size > maxFileSize[1])
        => (FailedWith("File is too big.") /\ SuccessCount = 0)

\* C16 for every maxFileSize but 0
C16_WithPositiveLimit ==
    (/\ Attempt /\ ~disabled /\ Len(accept) = 0
     /\ maxFileSize # Undefined /\ maxFileSize # <<0>>
     /\ Len(Submitted) = 1 /\ Submitted[1].present
     /\ Submitted[1].size > maxFileSize[1])
        => (FailedWith("File is too big.") /\ SuccessCount = 0)

(***************************************************************************)
(* C17 - a drop resets the hover state before the files are handled        *)
(***************************************************************************)
\* C17: after a drop handled while not disabled, isOver is false, every
\* event of the drop was emitted with isOver already false, and a drop
\* without dataTransfer emitted nothing.
C17_ResetBeforePipeline ==
    (lastSignal.kind = "drop" /\ ~disabled)
        => /\ ~isOver
           /\ \A k \in 1..Len(emitted) : ~emitted[k].isOver
           /\ ~lastSignal.files.present => emitted = <<>>

\* a drop on an enabled control emitted an event, seen with isOver false
C17_Witness ==
    /\ lastSignal.kind = "drop" /\ ~disabled /\ lastSignal.files.present
    /\ Len(emitted) = 1 /\ ~emitted[1].isOver /\ ~isOver

\* a drop without dataTransfer on an enabled control
C17_WitnessNoPayload ==
    /\ lastSignal.kind = "drop" /\ ~disabled /\ ~lastSignal.files.present
    /\ emitted = <<>> /\ ~isOver

(***************************************************************************)
(* C18 - the drop path and the picker path emit the same events            *)
(***************************************************************************)
\* C18: for every configuration and every file set, the events of an attempt
\* (name and payload, in order) are those a drop carrying the set emits and
\* those a picker change carrying the set emits: the two paths agree.
C18_PathsAgree ==
    /\ Attempt => /\ EventsOf(emitted) = dropEmits(lastSignal.files)
                  /\ EventsOf(emitted) = changeEmits(lastSignal.files)
    /\ \A p \in Payloads : p.present => dropEmits(p) = changeEmits(p)

\* a picker change ended in a failure that a drop of the same set emits too
C18_Witness ==
    /\ Attempt /\ lastSignal.kind = "change"
    /\ FailureCount = 1
    /\ dropEmits(lastSignal.files) = EventsOf(emitted)

(***************************************************************************)
(* C19 - how the accept list is read                                       *)
(***************************************************************************)
RECURSIVE TrimLeft(_)
TrimLeft(s) ==
    IF Len(s) = 0 THEN s
    ELSE IF s[1] \in Whitespace THEN TrimLeft(Tail(s)) ELSE s

RECURSIVE TrimRight(_)
TrimRight(s) ==
    IF Len(s) = 0 THEN s
    ELSE IF s[Len(s)] \in Whitespace THEN TrimRight(SubSeq(s, 1, Len(s) - 1))
    ELSE s

\* the comma-separated entries of a, each without its surrounding whitespace
TrimmedEntries(a) ==
    {TrimRight(TrimLeft(Split(a)[k])) : k \in 1..Len(Split(a))}

\* the comma-separated entries of a, each without any whitespace
WhitespaceFreeEntries(a) ==
    {RemoveWhitespace(Split(a)[k]) : k \in 1..Len(Split(a))}

\* an attempt with one present file on an enabled control with an accept list
SingleFileAttempt ==
    /\ Attempt /\ ~disabled /\ Len(accept) > 0
    /\ Len(Submitted) = 1 /\ Submitted[1].present

\* C19 as stated: the file is refused by the MIME check if and only if its
\* type equals none of the comma-separated entries of accept, each stripped
\* of its surrounding whitespace only.
C19_Original ==
    SingleFileAttempt
        => (FailedWith("File has invalid MIME type.")
               <=> Submitted[1].type \notin TrimmedEntries(accept))

\* C19: the MIME check reads a non-empty accept string as a comma-separated
\* list and removes all whitespace of each entry, inside it too; a file
\* passes if and only if its type equals one of the resulting entries
\* exactly. No wildcard or prefix matching; an entry with whitespace inside
\* matches the type that is the entry without its whitespace.
C19_WhitespaceRemoved ==
    SingleFileAttempt
        => (FailedWith("File has invalid MIME type.")
               <=> Submitted[1].type \notin WhitespaceFreeEntries(accept))

\* accept "p g" let a file of type "pg" through
C19_Witness ==
    /\ SingleFileAttempt /\ accept = <<"p", " ", "g">>
    /\ Submitted[1].type = TypePgm
    /\ FailureCount = 0 /\ SuccessCount = 1

\* accept "p*" refused a file of type "pg": no wildcard
C19_WitnessWildcard ==
    /\ SingleFileAttempt /\ accept = <<"p", "*">>
    /\ Submitted[1].type = TypePgm
    /\ FailedWith("File has invalid MIME type.")

(***************************************************************************)
(* C20 - what changes the hover state and the configuration                *)
(***************************************************************************)
DragKinds == {"dragenter", "dragover", "dragleave", "drop"}

\* the step is a lifecycle step, a picker change or a prop assignment: any
\* step but a drag handler
NonDragStep == mountVars' # mountVars \/ lastSignal'.kind \notin DragKinds

\* the step is the host assigning the disabled prop
HostAssignsDisabled == mountVars' = mountVars /\ lastSignal'.kind = "disabled"

\* C20: only the drag handlers change isOver: a picker change (onChange and
\* the handleFiles it runs), mounting and unmounting leave it as it was, and
\* every event is emitted with the value isOver has when the handler returns
\* (handleFiles and the emission do not change it). No handler and no
\* lifecycle step changes disabled, accept, multiple or maxFileSize.
C20_HoverAndPropsFrame ==
    [][/\ NonDragStep => isOver' = isOver
       /\ \A k \in 1..Len(emitted') : emitted'[k].isOver = isOver'
       /\ ~HostAssignsDisabled
             => UNCHANGED <<disabled, accept, multiple, maxFileSize>>]_vars

\* the control was hovered, a picker change ran and the instance left the
\* document: isOver is still true
C20_Witness ==
    /\ isOver /\ lastSignal.kind = "change" /\ lastSignal.files.present
    /\ loaded[1] /\ ~connected[1]

====
